---- MODULE Spec2Model ----
(***************************************************************************)
(* A model of src/app.py: the Streamlit script that loads                  *)
(* Consumo_cerveja.csv, cleans it in load_and_preprocess_data and derives  *)
(* five aggregates, each followed by the chart that shows it.              *)
(*                                                                         *)
(* Texts of the file are sequences of one-character strings, so that the   *)
(* conversions (str.replace, astype(float), to_datetime) are computed and  *)
(* not assumed.  A float is kept as an integer count of 1/Scale units; a   *)
(* date as the number of days since 1970-01-01 (datetime64).  DataFrames   *)
(* are objects of a heap and the script's names hold references, so that   *)
(* copy() against aliasing is something the model can tell apart.          *)
(***************************************************************************)
EXTENDS Integers, Sequences, FiniteSets, TLC

\* ------------------------------------------------------------------ bounds
\* rows of a file of the cleaning family
MaxRows == 2
\* rows of a file of the time-series family
MaxDays == 8
\* fractional decimal digits a modelled float keeps
FracDigits == 1

Scale == 10 ^ FracDigits

\* ------------------------------------------------------------- characters
Digits == <<"0", "1", "2", "3", "4", "5", "6", "7", "8", "9">>

IsDigit(c) == \E d \in 1..10 : Digits[d] = c

DigitVal(c) == (CHOOSE d \in 1..10 : Digits[d] = c) - 1

RECURSIVE DigitsToNat(_)
DigitsToNat(s) ==
  IF s = <<>> THEN 0
  ELSE 10 * DigitsToNat(SubSeq(s, 1, Len(s) - 1)) + DigitVal(s[Len(s)])

Pad2(n) == <<Digits[(n \div 10) + 1], Digits[(n % 10) + 1]>>

\* ------------------------------------------------------------------ values
\* One shape for every cell of a DataFrame: t is the kind, s a text, and the
\* number is v / (d * Scale), or big / (AlphaDen ^ d * Scale) for kind "ewm".
Str(s) == [t |-> "str", s |-> s, v |-> 0, d |-> 1, big |-> <<>>]
Num(v) == [t |-> "num", s |-> <<>>, v |-> v, d |-> 1, big |-> <<>>]
Ratio(v, d) == [t |-> "num", s |-> <<>>, v |-> v, d |-> d, big |-> <<>>]
Bool(b) == [t |-> "bool", s |-> <<>>, v |-> IF b THEN 1 ELSE 0, d |-> 1, big |-> <<>>]
Date(z) == [t |-> "date", s |-> <<>>, v |-> z, d |-> 1, big |-> <<>>]
Label(k) == [t |-> "int", s |-> <<>>, v |-> k, d |-> 1, big |-> <<>>]
Name(n) == [t |-> "name", s |-> <<n>>, v |-> 0, d |-> 1, big |-> <<>>]
NaN == [t |-> "nan", s |-> <<>>, v |-> 0, d |-> 1, big |-> <<>>]

\* ------------------------------------------------- float(text), as Python's
Unsigned(s) == IF s # <<>> /\ s[1] = "-" THEN Tail(s) ELSE s

DotAt(s) == {i \in 1..Len(s) : s[i] = "."}

IsFloatText(s) ==
  LET b == Unsigned(s) IN
    /\ Cardinality(DotAt(b)) <= 1
    /\ \A i \in (1..Len(b)) \ DotAt(b) : IsDigit(b[i])
    /\ \E i \in 1..Len(b) : IsDigit(b[i])

IsIntText(s) == IsFloatText(s) /\ DotAt(Unsigned(s)) = {}

RECURSIVE Zeros(_)
Zeros(n) == IF n <= 0 THEN <<>> ELSE <<"0">> \o Zeros(n - 1)

\* the fraction's digits at the resolution of the representation
FracPart(fr) ==
  IF Len(fr) >= FracDigits THEN SubSeq(fr, 1, FracDigits)
  ELSE fr \o Zeros(FracDigits - Len(fr))

FloatOf(s) ==
  LET b == Unsigned(s)
      p == IF DotAt(b) = {} THEN Len(b) + 1 ELSE CHOOSE i \in DotAt(b) : TRUE
      mag == DigitsToNat(SubSeq(b, 1, p - 1)) * Scale
               + DigitsToNat(FracPart(SubSeq(b, p + 1, Len(b))))
  IN IF b = s THEN mag ELSE 0 - mag

\* Series.str.replace(',', '.') on one text
StrReplaceComma(s) == [i \in 1..Len(s) |-> IF s[i] = "," THEN "." ELSE s[i]]

\* ------------------------------------------ calendar dates (datetime64[D])
DaysFromCivil(y0, m, d) ==
  LET y == IF m <= 2 THEN y0 - 1 ELSE y0
      era == y \div 400
      yoe == y - era * 400
      doy == ((153 * (IF m > 2 THEN m - 3 ELSE m + 9) + 2) \div 5) + d - 1
      doe == yoe * 365 + (yoe \div 4) - (yoe \div 100) + doy
  IN era * 146097 + doe - 719468

CivilFromDays(z0) ==
  LET z == z0 + 719468
      era == z \div 146097
      doe == z - era * 146097
      yoe == (doe - (doe \div 1460) + (doe \div 36524) - (doe \div 146096)) \div 365
      doy == doe - (365 * yoe + (yoe \div 4) - (yoe \div 100))
      mp == (5 * doy + 2) \div 153
      d == doy - ((153 * mp + 2) \div 5) + 1
      m == IF mp < 10 THEN mp + 3 ELSE mp - 9
  IN [year |-> yoe + era * 400 + (IF m <= 2 THEN 1 ELSE 0), month |-> m, day |-> d]

IsLeap(y) == (y % 4 = 0 /\ y % 100 # 0) \/ y % 400 = 0

DaysInMonth(y, m) ==
  IF m = 2 THEN (IF IsLeap(y) THEN 29 ELSE 28)
  ELSE IF m \in {4, 6, 9, 11} THEN 30 ELSE 31

\* the ISO texts YYYY-MM-DD that name a day of the calendar
IsDateText(s) ==
  /\ Len(s) = 10
  /\ s[5] = "-" /\ s[8] = "-"
  /\ \A i \in {1, 2, 3, 4, 6, 7, 9, 10} : IsDigit(s[i])
  /\ LET y == DigitsToNat(SubSeq(s, 1, 4))
         m == DigitsToNat(SubSeq(s, 6, 7))
         d == DigitsToNat(SubSeq(s, 9, 10))
     IN m \in 1..12 /\ d >= 1 /\ d <= DaysInMonth(y, m)

DateOf(s) ==
  DaysFromCivil(DigitsToNat(SubSeq(s, 1, 4)), DigitsToNat(SubSeq(s, 6, 7)),
                DigitsToNat(SubSeq(s, 9, 10)))

WeekdayNames ==
  <<"Sunday", "Monday", "Tuesday", "Wednesday", "Thursday", "Friday", "Saturday">>

\* 1970-01-01 was a Thursday
DayName(z) == WeekdayNames[((z + 4) % 7) + 1]

\* -------------------------------------------------------------- DataFrames
\* A DataFrame: its column names in order, a dtype per column, the name of the
\* column that was made the index ("" for the default RangeIndex) and its rows,
\* each an index label and a cell per column.
Range(s) == {s[i] : i \in 1..Len(s)}

PosIn(s, x) == CHOOSE i \in 1..Len(s) : s[i] = x

\* the names of the file's own header row, discarded by the renaming
RawHeader == <<"h1", "h2", "h3", "h4", "h5", "h6", "h7">>

Columns ==
  <<"date", "avg_temp", "min_temp", "max_max", "precipitation", "is_weekend",
    "consumption">>

EmptyDf ==
  [cols |-> <<>>, dtype |-> [c \in {} |-> "object"], index |-> "", rows |-> <<>>]

\* pd.read_csv's type inference for column j of the data rows
InferDtype(rows, j) ==
  LET present == {i \in 1..Len(rows) : rows[i][j] # <<>>} IN
    IF Len(rows) = 0 THEN "object"
    ELSE IF \E i \in present : ~IsFloatText(rows[i][j]) THEN "object"
    ELSE IF present = 1..Len(rows) /\ \A i \in present : IsIntText(rows[i][j])
      THEN "int64"
    ELSE "float64"

CellOf(text, dtype) ==
  IF text = <<>> THEN NaN
  ELSE IF dtype = "object" THEN Str(text)
  ELSE Num(FloatOf(text))

ReadCsv(rows) ==
  LET dt == [c \in Range(RawHeader) |-> InferDtype(rows, PosIn(RawHeader, c))] IN
    [cols |-> RawHeader,
     dtype |-> dt,
     index |-> "",
     rows |-> [i \in 1..Len(rows) |->
                 [label |-> Label(i - 1),
                  cell |-> [c \in Range(RawHeader) |->
                              CellOf(rows[i][PosIn(RawHeader, c)], dt[c])]]]]

HasNa(r) == \E c \in DOMAIN r.cell : r.cell[c] = NaN

\* variant: dropna(how='all'), which drops only the rows with every field missing
DropNaHowAll(df) ==
  [df EXCEPT !.rows = SelectSeq(df.rows, LAMBDA r : \E c \in DOMAIN r.cell : r.cell[c] # NaN)]

\* variant: dropna() followed by drop_duplicates on the first column
DropNaAndDuplicates(df) ==
  LET kept == SelectSeq(df.rows, LAMBDA r : ~HasNa(r)) IN
    [df EXCEPT !.rows =
       SelectSeq(kept, LAMBDA r :
         \A q \in Range(kept) :
           q.cell[df.cols[1]] = r.cell[df.cols[1]] => q.label.v >= r.label.v)]

DropNa(df) == [df EXCEPT !.rows = SelectSeq(df.rows, LAMBDA r : ~HasNa(r))]

\* beer_df.columns = [...]: the columns are renamed by position
RenameColumns(df, names) ==
  [df EXCEPT
     !.cols = names,
     !.dtype = [c \in Range(names) |-> df.dtype[df.cols[PosIn(names, c)]]],
     !.rows = [i \in 1..Len(df.rows) |->
                 [df.rows[i] EXCEPT
                    !.cell = [c \in Range(names) |->
                                df.rows[i].cell[df.cols[PosIn(names, c)]]]]]]

Ok(df) == [err |-> "none", df |-> df]

Raise(e) == [err |-> e, df |-> EmptyDf]

\* df[c] = values, for a column the frame has: the values by position
SetColumn(df, c, dtype, values) ==
  [df EXCEPT
     !.dtype[c] = dtype,
     !.rows = [i \in 1..Len(df.rows) |-> [df.rows[i] EXCEPT !.cell[c] = values[i]]]]

\* variant: pd.to_numeric(..., errors='coerce'), which turns what is no number
\* into NaN
StrReplaceCoerce(df, c) ==
  IF df.dtype[c] # "object" THEN Raise("AttributeError")
  ELSE Ok(SetColumn(df, c, "float64",
                    [i \in 1..Len(df.rows) |->
                       IF IsFloatText(StrReplaceComma(df.rows[i].cell[c].s))
                       THEN Num(FloatOf(StrReplaceComma(df.rows[i].cell[c].s)))
                       ELSE NaN]))

\* beer_df[c] = beer_df[c].str.replace(',', '.').astype(float)
StrReplaceAsFloat(df, c) ==
  IF df.dtype[c] # "object" THEN Raise("AttributeError")
  ELSE IF \E i \in 1..Len(df.rows) :
            ~IsFloatText(StrReplaceComma(df.rows[i].cell[c].s))
    THEN Raise("ValueError")
  ELSE Ok(SetColumn(df, c, "float64",
                    [i \in 1..Len(df.rows) |->
                       Num(FloatOf(StrReplaceComma(df.rows[i].cell[c].s)))]))

\* variant: the threshold taken as >= 0.5
WeekendFlagAtLeastHalf(df) ==
  IF df.dtype["is_weekend"] = "object" /\ df.rows # <<>> THEN Raise("TypeError")
  ELSE Ok(SetColumn(df, "is_weekend", "bool",
                    [i \in 1..Len(df.rows) |->
                       Bool(2 * df.rows[i].cell["is_weekend"].v >= Scale)]))

\* beer_df['is_weekend'] = beer_df['is_weekend'] > 0.5
WeekendFlag(df) ==
  IF df.dtype["is_weekend"] = "object" /\ df.rows # <<>> THEN Raise("TypeError")
  ELSE Ok(SetColumn(df, "is_weekend", "bool",
                    [i \in 1..Len(df.rows) |->
                       Bool(2 * df.rows[i].cell["is_weekend"].v > Scale)]))

\* beer_df['date'] = pd.to_datetime(beer_df['date'])
ToDatetime(df) ==
  IF \E i \in 1..Len(df.rows) :
       df.rows[i].cell["date"].t = "str" /\ ~IsDateText(df.rows[i].cell["date"].s)
    THEN Raise("ValueError")
  ELSE Ok(SetColumn(df, "date", "datetime64",
                    [i \in 1..Len(df.rows) |->
                       IF df.rows[i].cell["date"].t = "str"
                       THEN Date(DateOf(df.rows[i].cell["date"].s)) ELSE Date(0)]))

\* variant: an absent file read as a file of the header alone
ReadCsvOrEmpty(f) == IF ~f.exists THEN Ok(ReadCsv(<<>>)) ELSE Ok(ReadCsv(f.rows))

\* pd.read_csv("./Consumo_cerveja.csv")
ReadCsvFile(f) == IF ~f.exists THEN Raise("FileNotFoundError") ELSE Ok(ReadCsv(f.rows))

\* the statements of lines 15 to 26, in order
Statements ==
  <<"dropna", "columns", "avg_temp", "min_temp", "max_max", "precipitation",
    "is_weekend", "date">>

Statement(st, df) ==
  CASE st = "dropna" -> Ok(DropNa(df))
    [] st = "columns" -> Ok(RenameColumns(df, Columns))
    [] st = "is_weekend" -> WeekendFlag(df)
    [] st = "date" -> ToDatetime(df)
    [] OTHER -> StrReplaceAsFloat(df, st)

\* the statements from the i-th on; the first exception ends the function
RECURSIVE RunFrom(_, _)
RunFrom(R, i) ==
  IF R.err # "none" \/ i > Len(Statements) THEN R
  ELSE RunFrom(Statement(Statements[i], R.df), i + 1)

load_and_preprocess_data(f) == RunFrom(ReadCsvFile(f), 1)

\* ------------------------------------------------------------ input files
\* texts that occur in the cells of the modelled files
cD1 == <<"2", "0", "1", "5", "-", "0", "1", "-", "0", "1">>
cD2 == <<"2", "0", "1", "6", "-", "0", "2", "-", "2", "9">>
cAbc == <<"a", "b", "c">>
c27c3 == <<"2", "7", ",", "3">>
c23c9 == <<"2", "3", ",", "9">>
c32c5 == <<"3", "2", ",", "5">>
c1c2 == <<"1", ",", "2">>
c1c5 == <<"1", ",", "5">>
c1p5 == <<"1", ".", "5">>
c0 == <<"0">>
c1 == <<"1">>
c0p0 == <<"0", ".", "0">>
c1p0 == <<"1", ".", "0">>
c0p5 == <<"0", ".", "5">>
c25p4 == <<"2", "5", ".", "4">>
c30 == <<"3", "0">>

\* a complete row in the file's conventions: comma decimals in the four
\* weather columns, a 0.0/1.0 weekend flag, dot decimals in the consumption
BaseRow == <<cD1, c27c3, c23c9, c32c5, c1c2, c0p0, c25p4>>

\* what one field of a row may hold instead (<<>> is an empty field)
Alternatives ==
  <<{cD2, cAbc, <<>>},
    {c1c5, c1p5, cAbc, <<>>},
    {c1p5},
    {cAbc},
    {c1c5, c1p5, c0, cAbc, <<>>},
    {c1p0, c1, c0, c0p5, cAbc, <<>>},
    {c30, <<>>}>>

\* a row with a dot decimal in the first weather column and a text that is no
\* number in the last
MixedRow == [BaseRow EXCEPT ![2] = c1p5, ![5] = cAbc]

CleaningRows ==
  {BaseRow, MixedRow}
    \cup UNION {{[BaseRow EXCEPT ![j] = a] : a \in Alternatives[j]} : j \in 1..7}

CleaningFiles == UNION {[1..n -> CleaningRows] : n \in 0..MaxRows}

RECURSIVE NatText(_)
NatText(n) ==
  IF n < 10 THEN <<Digits[n + 1]>> ELSE NatText(n \div 10) \o <<Digits[(n % 10) + 1]>>

\* consecutive days from 2015-01-27 on, across the end of the month
DayText(k) ==
  <<"2", "0", "1", "5", "-">>
    \o (IF 26 + k <= 31 THEN Pad2(1) \o <<"-">> \o Pad2(26 + k)
        ELSE Pad2(2) \o <<"-">> \o Pad2(k - 5))

\* the consumptions of the eight consecutive days of the documented scenario
ExampleCons == <<10, 12, 11, 9, 14, 20, 18, 13>>

\* the consumption of day k: the scenario's (pattern 0, repeated after eight
\* days), or 10 on every day but day pattern - 1, which has 20
ConsOfDay(pattern, k) ==
  IF pattern = 0 THEN ExampleCons[((k - 1) % 8) + 1]
  ELSE IF k = pattern - 1 THEN 20 ELSE 10

DayRow(pattern, k, dateOf) ==
  <<DayText(dateOf), c27c3, c23c9, c32c5, c1c2,
    IF DayName(DateOf(DayText(dateOf))) \in {"Saturday", "Sunday"} THEN c1p0 ELSE c0p0,
    NatText(ConsOfDay(pattern, k))>>

\* n days in the order the file lists them: rotated by r, or reversed (r = n);
\* with dup, the last listed row repeats the date of day 1
DaysFile(n, pattern, r, dup) ==
  [i \in 1..n |->
     LET k == IF r = n THEN n + 1 - i ELSE ((i - 1 + r) % n) + 1 IN
       DayRow(pattern, k, IF dup /\ i = n /\ n > 1 THEN 1 ELSE k)]

SeriesFiles ==
  {DaysFile(n, pattern, r, dup) :
     n \in 1..MaxDays, pattern \in 0..(MaxDays + 1), r \in 0..MaxDays, dup \in BOOLEAN}

File(rows) == [exists |-> TRUE, rows |-> rows]

AbsentFile == [exists |-> FALSE, rows |-> <<>>]

InputFiles == {AbsentFile} \cup {File(rows) : rows \in CleaningFiles \cup SeriesFiles}

\* ------------------------------------------------------------------- state
VARIABLES
  file,                       \* ./Consumo_cerveja.csv
  pc,                         \* the section of the script that runs next
  err,                        \* the exception that ended the run, or "none"
  cache,                      \* st.cache_data's entry for load_and_preprocess_data
  heap,                       \* the DataFrame objects of this run
  beer_df,                    \* the script's names: references into heap (0: unbound)
  monthly_df_precip,
  weekdays_df,
  yearly_consumption_df,
  daily_consumption_df,
  softened_daily_consumption,
  monthly_avg_precip,         \* <<>> while unbound, else <<the Series>>
  monthly_data,               \* <<>> while unbound, else <<the pivot>>
  page                        \* the elements the run has sent to the page

vars ==
  <<file, pc, err, cache, heap, beer_df, monthly_df_precip, weekdays_df,
    yearly_consumption_df, daily_consumption_df, softened_daily_consumption,
    monthly_avg_precip, monthly_data, page>>

names ==
  <<beer_df, monthly_df_precip, weekdays_df, yearly_consumption_df,
    daily_consumption_df, softened_daily_consumption, monthly_avg_precip,
    monthly_data>>

TypeOK ==
  /\ pc \in {"load", "layout", "precip", "weekday", "yearly", "daily", "ewma",
             "done", "failed"}
  /\ Len(cache) <= 1
  /\ beer_df \in 0..Len(heap)

Start ==
  /\ pc = "load"
  /\ err = "none"
  /\ heap = <<>>
  /\ beer_df = 0
  /\ monthly_df_precip = 0
  /\ weekdays_df = 0
  /\ yearly_consumption_df = 0
  /\ daily_consumption_df = 0
  /\ softened_daily_consumption = 0
  /\ monthly_avg_precip = <<>>
  /\ monthly_data = <<>>
  /\ page = <<>>

Init ==
  /\ file \in InputFiles
  /\ cache = <<>>
  /\ Start

\* an exception leaves the script: the run ends, the names bound so far stay
Fail(e) ==
  /\ pc' = "failed"
  /\ err' = e

\* beer_df = load_and_preprocess_data(), behind st.cache_data: a hit returns a
\* copy of the cached value; a miss runs the function, and caches what it
\* returns unless it raises
Load ==
  /\ pc = "load"
  /\ LET r == IF cache # <<>> THEN Ok(cache[1]) ELSE load_and_preprocess_data(file) IN
       IF r.err # "none"
       THEN /\ Fail(r.err)
            /\ UNCHANGED <<cache, heap, beer_df>>
       ELSE /\ cache' = <<r.df>>
            /\ heap' = Append(heap, r.df)
            /\ beer_df' = Len(heap) + 1
            /\ pc' = "layout"
            /\ err' = "none"
  /\ UNCHANGED <<file, monthly_df_precip, weekdays_df, yearly_consumption_df,
                 daily_consumption_df, softened_daily_consumption,
                 monthly_avg_precip, monthly_data, page>>

\* head(), shape, dtypes: the page's first elements (read-only uses of beer_df)
Layout ==
  /\ pc = "layout"
  /\ page' = page \o <<"title", "markdown", "header", "write", "dataframe", "write",
                       "write", "write", "write", "dataframe", "header">>
  /\ pc' = "precip"
  /\ UNCHANGED <<file, err, cache, heap, names>>

\* ------------------------------------------------- operations on DataFrames
HasCol(df, c) == c \in Range(df.cols)

\* variant: the name bound to the same object, no copy made
DfAlias(h, ref) == [heap |-> h, ref |-> ref]

\* df.copy(): a new object with the same contents
DfCopy(h, ref) == [heap |-> Append(h, h[ref]), ref |-> Len(h) + 1]

\* df.set_index(c, inplace=True): column c becomes the index of the same object
SetIndex(df, c) ==
  [cols |-> SelectSeq(df.cols, LAMBDA x : x # c),
   dtype |-> [x \in Range(df.cols) \ {c} |-> df.dtype[x]],
   index |-> c,
   rows |-> [i \in 1..Len(df.rows) |->
               [label |-> df.rows[i].cell[c],
                cell |-> [x \in Range(df.cols) \ {c} |-> df.rows[i].cell[x]]]]]

\* df[c] = series: a new column, its values matched to the rows by index label
AddColumn(df, c, dtype, series) ==
  [cols |-> IF HasCol(df, c) THEN df.cols ELSE Append(df.cols, c),
   dtype |-> [x \in Range(df.cols) \cup {c} |-> IF x = c THEN dtype ELSE df.dtype[x]],
   index |-> df.index,
   rows |-> [i \in 1..Len(df.rows) |->
               [label |-> df.rows[i].label,
                cell |-> [x \in Range(df.cols) \cup {c} |->
                            IF x = c
                            THEN series[CHOOSE j \in 1..Len(series) :
                                          series[j].label = df.rows[i].label].value
                            ELSE df.rows[i].cell[x]]]]]

\* a column as a Series: index labels and values
SeriesOf(df, c) ==
  [i \in 1..Len(df.rows) |-> [label |-> df.rows[i].label, value |-> df.rows[i].cell[c]]]

RECURSIVE SumV(_)
SumV(xs) == IF xs = <<>> THEN 0 ELSE xs[1].v + SumV(Tail(xs))

Min(S) == CHOOSE x \in S : \A y \in S : x <= y

Max(S) == CHOOSE x \in S : \A y \in S : x >= y

RECURSIVE SortedSeq(_)
SortedSeq(S) == IF S = {} THEN <<>> ELSE <<Min(S)>> \o SortedSeq(S \ {Min(S)})

MonthNo(z) == CivilFromDays(z).year * 12 + CivilFromDays(z).month - 1

MonthEnd(mi) ==
  DaysFromCivil(mi \div 12, (mi % 12) + 1, DaysInMonth(mi \div 12, (mi % 12) + 1))

\* df[c].resample('ME').mean() of a date-indexed frame: one entry per month
\* from the first to the last month present, NaN for a month without rows
ResampleMonthEndMean(df, c) ==
  IF df.rows = <<>> THEN <<>>
  ELSE
    LET months == {MonthNo(df.rows[i].label.v) : i \in 1..Len(df.rows)}
        lo == Min(months)
    IN [k \in 1..(Max(months) - lo + 1) |->
          LET sel == SelectSeq(df.rows, LAMBDA r : MonthNo(r.label.v) = lo + k - 1)
          IN [label |-> Date(MonthEnd(lo + k - 1)),
              value |-> IF sel = <<>> THEN NaN
                        ELSE Ratio(SumV([i \in 1..Len(sel) |-> sel[i].cell[c]]),
                                   Len(sel))]]

\* df.groupby(['year', 'month_num'])[c].sum().unstack(level=0): a row per month
\* number present, a column per year present, NaN where the pair has no rows
PivotYearMonthSum(df, c) ==
  LET years == {df.rows[i].cell["year"].v : i \in 1..Len(df.rows)}
      months == {df.rows[i].cell["month_num"].v : i \in 1..Len(df.rows)}
  IN [index |-> SortedSeq(months),
      columns |-> SortedSeq(years),
      cell |-> [m \in months |-> [y \in years |->
                  LET vals == SelectSeq(df.rows, LAMBDA r : r.cell["year"].v = y
                                                            /\ r.cell["month_num"].v = m)
                  IN IF vals = <<>> THEN NaN
                     ELSE Num(SumV([i \in 1..Len(vals) |-> vals[i].cell[c]]))]]]

\* the orders sort_values(c) may give the rows: ascending in c, rows of equal c
\* in any order (the default sort is not stable)
RECURSIVE Orders(_, _, _)
Orders(rows, c, S) ==
  IF S = {} THEN {<<>>}
  ELSE UNION {{<<i>> \o t : t \in Orders(rows, c, S \ {i})} :
                i \in {i \in S : \A j \in S : rows[i].cell[c].v <= rows[j].cell[c].v}}

SortValuesOrders(df, c) == Orders(df.rows, c, 1..Len(df.rows))

\* variant: the rows left in the order they have
SortValuesKeepOrder(df, order) == df

\* the new frame sort_values returns for one of those orders
SortValues(df, order) == [df EXCEPT !.rows = [k \in 1..Len(order) |-> df.rows[order[k]]]]

\* ---------------------------------------------------- rolling(window).mean()
Window == 7

\* the running sum and count after row i: row i enters, row i - w leaves
RECURSIVE RollState(_, _, _)
RollState(xs, w, i) ==
  IF i = 0 THEN [sum |-> 0, nobs |-> 0]
  ELSE LET p == RollState(xs, w, i - 1)
           sum == p.sum + xs[i].value.v
       IN IF i > w THEN [sum |-> sum - xs[i - w].value.v, nobs |-> p.nobs]
          ELSE [sum |-> sum, nobs |-> p.nobs + 1]

\* min_periods defaults to the window
MinPeriods(w) == w

RollingMean(xs, w) ==
  [i \in 1..Len(xs) |->
     [label |-> xs[i].label,
      value |-> LET st == RollState(xs, w, i) IN
                  IF st.nobs >= MinPeriods(w) THEN Ratio(st.sum, st.nobs) ELSE NaN]]

\* -------------------------------------------- ewm(span, adjust=False).mean()
Span == 30

\* alpha = 1 / (1 + com) with com = (span - 1) / 2, that is AlphaNum / AlphaDen
AlphaNum == 2

AlphaDen == Span + 1

\* naturals beyond the machine integer: digits in base AlphaDen, lowest first
RECURSIVE BigOf(_)
BigOf(n) == IF n = 0 THEN <<>> ELSE <<n % AlphaDen>> \o BigOf(n \div AlphaDen)

RECURSIVE BigMulAdd(_, _, _)
BigMulAdd(a, k, carry) ==
  IF a = <<>> THEN BigOf(carry)
  ELSE <<(a[1] * k + carry) % AlphaDen>>
         \o BigMulAdd(Tail(a), k, (a[1] * k + carry) \div AlphaDen)

RECURSIVE BigAdd(_, _, _)
BigAdd(a, b, carry) ==
  IF a = <<>> THEN BigMulAdd(b, 1, carry)
  ELSE IF b = <<>> THEN BigMulAdd(a, 1, carry)
  ELSE <<(a[1] + b[1] + carry) % AlphaDen>>
         \o BigAdd(Tail(a), Tail(b), (a[1] + b[1] + carry) \div AlphaDen)

RECURSIVE BigShift(_, _)
BigShift(a, n) == IF a = <<>> \/ n = 0 THEN a ELSE <<0>> \o BigShift(a, n - 1)

Ewm(big, d) == [t |-> "ewm", s |-> <<>>, v |-> 0, d |-> d, big |-> big]

\* the first value of the smoothed series
EwmSeed(x) == Ewm(BigOf(x.v), 0)

\* variant: the two weights exchanged
EwmStepWeightsExchanged(weighted, cur) ==
  IF weighted.big = BigShift(BigOf(cur.v), weighted.d) THEN weighted
  ELSE Ewm(BigAdd(BigMulAdd(weighted.big, AlphaNum, 0),
                  BigShift(BigOf((AlphaDen - AlphaNum) * cur.v), weighted.d), 0),
           weighted.d + 1)

\* one step of the smoothing: old_wt = 1 - alpha, new_wt = alpha, the weighted
\* sum divided by old_wt + new_wt = 1; a value equal to the running one keeps it
EwmStep(weighted, cur) ==
  IF weighted.big = BigShift(BigOf(cur.v), weighted.d) THEN weighted
  ELSE Ewm(BigAdd(BigMulAdd(weighted.big, AlphaDen - AlphaNum, 0),
                  BigShift(BigOf(AlphaNum * cur.v), weighted.d), 0),
           weighted.d + 1)

RECURSIVE EwmFrom(_, _, _)
EwmFrom(xs, i, weighted) ==
  IF i > Len(xs) THEN <<>>
  ELSE LET w == IF i = 1 THEN EwmSeed(xs[1].value) ELSE EwmStep(weighted, xs[i].value)
       IN <<[label |-> xs[i].label, value |-> w]>> \o EwmFrom(xs, i + 1, w)

EwmMean(xs) == EwmFrom(xs, 1, NaN)

\* --------------------------------------------------- the script's sections
\* lines 60-73: the monthly mean precipitation and its bar chart
MonthlyPrecipitation ==
  /\ pc = "precip"
  /\ LET c == DfCopy(heap, beer_df) IN
       IF ~HasCol(c.heap[c.ref], "date")
       THEN /\ Fail("KeyError")
            /\ heap' = c.heap
            /\ monthly_df_precip' = c.ref
            /\ UNCHANGED <<monthly_avg_precip, page>>
       ELSE LET h == [c.heap EXCEPT ![c.ref] = SetIndex(@, "date")] IN
              /\ heap' = h
              /\ monthly_df_precip' = c.ref
              /\ monthly_avg_precip' = <<ResampleMonthEndMean(h[c.ref], "precipitation")>>
              /\ page' = page \o <<"subheader", "pyplot fig_precip">>
              /\ pc' = "weekday"
              /\ err' = "none"
  /\ UNCHANGED <<file, cache, beer_df, weekdays_df, yearly_consumption_df,
                 daily_consumption_df, softened_daily_consumption, monthly_data>>

\* df['date'].dt.day_name(), .dt.year, .dt.month: Series on df's index
DayNames(df) ==
  [i \in 1..Len(df.rows) |->
     [label |-> df.rows[i].label, value |-> Name(DayName(df.rows[i].cell["date"].v))]]

Years(df) ==
  [i \in 1..Len(df.rows) |->
     [label |-> df.rows[i].label,
      value |-> Num(CivilFromDays(df.rows[i].cell["date"].v).year)]]

Months(df) ==
  [i \in 1..Len(df.rows) |->
     [label |-> df.rows[i].label,
      value |-> Num(CivilFromDays(df.rows[i].cell["date"].v).month)]]

\* lines 76-88: the weekday of every record and the box plot by weekday
WeekdayDistribution ==
  /\ pc = "weekday"
  /\ LET c == DfCopy(heap, beer_df) IN
       /\ weekdays_df' = c.ref
       /\ IF ~HasCol(c.heap[beer_df], "date")
          THEN /\ Fail("KeyError")
               /\ heap' = c.heap
               /\ UNCHANGED page
          ELSE /\ heap' = [c.heap EXCEPT ![c.ref] =
                             AddColumn(@, "weekday", "object", DayNames(c.heap[beer_df]))]
               /\ page' = page \o <<"subheader", "pyplot fig_weekday">>
               /\ pc' = "yearly"
               /\ err' = "none"
  /\ UNCHANGED <<file, cache, beer_df, monthly_df_precip, yearly_consumption_df,
                 daily_consumption_df, softened_daily_consumption,
                 monthly_avg_precip, monthly_data>>

\* lines 91-108: total consumption by month, a series per year, and its line
\* chart; DataFrame.plot raises TypeError (no numeric data to plot) for a
\* frame without columns
YearOverMonth ==
  /\ pc = "yearly"
  /\ LET c == DfCopy(heap, beer_df) IN
       /\ yearly_consumption_df' = c.ref
       /\ IF ~HasCol(c.heap[c.ref], "date")
          THEN /\ Fail("KeyError")
               /\ heap' = c.heap
               /\ UNCHANGED <<monthly_data, page>>
          ELSE LET withYear == AddColumn(c.heap[c.ref], "year", "int32", Years(c.heap[c.ref]))
                   withMonth == AddColumn(withYear, "month_num", "int32", Months(withYear))
                   pivot == PivotYearMonthSum(withMonth, "consumption")
               IN /\ heap' = [c.heap EXCEPT ![c.ref] = withMonth]
                  /\ monthly_data' = <<pivot>>
                  /\ IF pivot.columns = <<>>
                     THEN /\ Fail("TypeError")
                          /\ page' = page \o <<"subheader">>
                     ELSE /\ page' = page \o <<"subheader", "pyplot fig_monthly_comp">>
                          /\ pc' = "daily"
                          /\ err' = "none"
  /\ UNCHANGED <<file, cache, beer_df, monthly_df_precip, weekdays_df,
                 daily_consumption_df, softened_daily_consumption, monthly_avg_precip>>

\* lines 111-128: the records in date order, their 7-day rolling mean, the chart
DailyRolling ==
  /\ pc = "daily"
  /\ LET c == DfCopy(heap, beer_df) IN
       IF ~HasCol(c.heap[c.ref], "date")
       THEN /\ Fail("KeyError")
            /\ heap' = c.heap
            /\ daily_consumption_df' = c.ref
            /\ UNCHANGED page
       ELSE \E order \in SortValuesOrders(c.heap[c.ref], "date") :
              LET sorted == SortValues(c.heap[c.ref], order) IN
                /\ heap' = Append(c.heap,
                                  AddColumn(sorted, "rolling_avg", "float64",
                                            RollingMean(SeriesOf(sorted, "consumption"),
                                                        Window)))
                /\ daily_consumption_df' = Len(c.heap) + 1
                /\ page' = page \o <<"subheader", "pyplot fig_daily">>
                /\ pc' = "ewma"
                /\ err' = "none"
  /\ UNCHANGED <<file, cache, beer_df, monthly_df_precip, weekdays_df,
                 yearly_consumption_df, softened_daily_consumption,
                 monthly_avg_precip, monthly_data>>

\* lines 131-146: the records in date order, their EWMA of span 30, the chart
LowPassTrend ==
  /\ pc = "ewma"
  /\ LET c == DfCopy(heap, beer_df) IN
       IF ~HasCol(c.heap[c.ref], "date")
       THEN /\ Fail("KeyError")
            /\ heap' = c.heap
            /\ softened_daily_consumption' = c.ref
            /\ UNCHANGED page
       ELSE \E order \in SortValuesOrders(c.heap[c.ref], "date") :
              LET sorted == SortValues(c.heap[c.ref], order) IN
                /\ heap' = Append(c.heap,
                                  AddColumn(sorted, "soft_trend", "float64",
                                            EwmMean(SeriesOf(sorted, "consumption"))))
                /\ softened_daily_consumption' = Len(c.heap) + 1
                /\ page' = page \o <<"subheader", "pyplot fig_lp">>
                /\ pc' = "done"
                /\ err' = "none"
  /\ UNCHANGED <<file, cache, beer_df, monthly_df_precip, weekdays_df,
                 yearly_consumption_df, daily_consumption_df,
                 monthly_avg_precip, monthly_data>>

\* Streamlit runs the script again from the top (a reload of the page): the
\* names and the page start afresh, st.cache_data's entry stays
Rerun ==
  /\ pc \in {"done", "failed"}
  /\ pc' = "load"
  /\ err' = "none"
  /\ heap' = <<>>
  /\ beer_df' = 0
  /\ monthly_df_precip' = 0
  /\ weekdays_df' = 0
  /\ yearly_consumption_df' = 0
  /\ daily_consumption_df' = 0
  /\ softened_daily_consumption' = 0
  /\ monthly_avg_precip' = <<>>
  /\ monthly_data' = <<>>
  /\ page' = <<>>
  /\ UNCHANGED <<file, cache>>

Next ==
  \/ Load
  \/ Layout
  \/ MonthlyPrecipitation
  \/ WeekdayDistribution
  \/ YearOverMonth
  \/ DailyRolling
  \/ LowPassTrend
  \/ Rerun

Spec == Init /\ [][Next]_vars

\* ------------------------------------------------------------- properties
\* the rows of the file with no empty field, by position
CompleteRows == {i \in 1..Len(file.rows) : \A j \in 1..7 : file.rows[i][j] # <<>>}

\* load_and_preprocess_data has returned a collection in this run
Loaded == beer_df # 0

Observations == heap[beer_df].rows

\* the row of the file an Observation was read from (its index label)
RawOf(r) == file.rows[r.label.v + 1]

\* a complete row holds a text that is no number after ',' -> '.', or no date
MalformedNumber(i, j) == i \in CompleteRows /\ ~IsFloatText(StrReplaceComma(file.rows[i][j]))

MalformedDate(i) == i \in CompleteRows /\ ~IsDateText(file.rows[i][1])

Malformed ==
  \E i \in 1..Len(file.rows) : MalformedDate(i) \/ \E j \in 2..5 : MalformedNumber(i, j)

\* the file reader left each of the four columns textual and the flag numeric
FourTextual == \A j \in 2..5 : InferDtype(file.rows, j) = "object"

FlagNumeric == InferDtype(file.rows, 6) # "object"

Unbound ==
  /\ monthly_df_precip = 0 /\ weekdays_df = 0 /\ yearly_consumption_df = 0
  /\ daily_consumption_df = 0 /\ softened_daily_consumption = 0
  /\ monthly_avg_precip = <<>> /\ monthly_data = <<>>

IsSortedByDate(rows) ==
  \A i \in 1..Len(rows) : \A j \in i..Len(rows) : rows[i].cell["date"].v <= rows[j].cell["date"].v

SameRecords(rows, other) ==
  /\ Len(rows) = Len(other)
  /\ \A r \in Range(other) : \E i \in 1..Len(rows) :
       rows[i].label = r.label /\ \A c \in Range(Columns) : rows[i].cell[c] = r.cell[c]

RECURSIVE SumCons(_, _, _)
SumCons(rows, lo, hi) ==
  IF lo > hi THEN 0 ELSE rows[lo].cell["consumption"].v + SumCons(rows, lo + 1, hi)

\* C1 (as claimed): on a file whose complete rows hold only well-formed values,
\* the load succeeds whether the reader left a weather column textual or
\* numeric, and every value of the four columns is the number its text
\* denotes with ',' read as '.'.
C1_LoadsTextualAndNumericColumns ==
  (pc # "load" /\ file.exists /\ ~Malformed /\ (FlagNumeric \/ CompleteRows = {}))
    => /\ Loaded
       /\ \A k \in 1..Len(Observations) : \A j \in 2..5 :
            Observations[k].cell[Columns[j]]
              = Num(FloatOf(StrReplaceComma(RawOf(Observations[k])[j])))

C3_MalformedValueFailsTheLoad ==
  (pc # "load" /\ Malformed) =>
    /\ pc = "failed"
    /\ err \in {"ValueError", "AttributeError", "TypeError"}
    /\ ~Loaded /\ heap = <<>> /\ cache = <<>> /\ page = <<>>
    /\ (FourTextual /\ FlagNumeric) => err = "ValueError"

C3_Witness ==
  /\ pc = "failed"
  /\ err = "ValueError"
  /\ \E i \in CompleteRows : file.rows[i][5] = cAbc

\* C4: with the file absent the run ends at the load with FileNotFoundError:
\* no dataset, no aggregate, no element of the page.
C4_AbsentFileStopsTheRun ==
  ~file.exists =>
    /\ pc \in {"load", "failed"}
    /\ pc = "failed" => err = "FileNotFoundError"
    /\ ~Loaded /\ heap = <<>> /\ cache = <<>> /\ Unbound /\ page = <<>>

C4_Witness == ~file.exists /\ pc = "failed" /\ err = "FileNotFoundError"

\* C5 (as claimed): on a file of the header row alone the load returns zero
\* Observations and the run computes the five aggregates, each empty, without
\* an error.
C5_HeaderOnlyRunsThrough ==
  (file.exists /\ file.rows = <<>>) =>
    /\ pc # "failed"
    /\ Loaded => Observations = <<>>
    /\ pc = "done" =>
         /\ monthly_avg_precip = <<<<>>>>
         /\ heap[weekdays_df].rows = <<>>
         /\ monthly_data[1].columns = <<>>
         /\ heap[daily_consumption_df].rows = <<>>
         /\ heap[softened_daily_consumption].rows = <<>>

\* C6 (as claimed): no two returned Observations have the same date.
C6_DatesAreUnique ==
  Loaded =>
    \A k \in 1..Len(Observations) : \A l \in 1..Len(Observations) :
      k # l => Observations[k].cell["date"] # Observations[l].cell["date"]

\* C6 (amended): every complete row is returned with the date of its own row,
\* none removed or merged, so two Observations have the same date exactly when
\* their rows of the file do.
C6_DatesAreTheRowsDates ==
  Loaded =>
    /\ Len(Observations) = Cardinality(CompleteRows)
    /\ \A k \in 1..Len(Observations) :
         Observations[k].cell["date"] = Date(DateOf(RawOf(Observations[k])[1]))
    /\ \A k \in 1..Len(Observations) : \A l \in 1..Len(Observations) :
         (Observations[k].cell["date"] = Observations[l].cell["date"])
           <=> (RawOf(Observations[k])[1] = RawOf(Observations[l])[1])

C6_Witness ==
  /\ Loaded
  /\ \E k \in 1..Len(Observations) : \E l \in 1..Len(Observations) :
       k # l /\ Observations[k].cell["date"] = Observations[l].cell["date"]

Rolled == pc \in {"ewma", "done"}

Daily == heap[daily_consumption_df].rows

\* C7: the rolling mean is over the records in date order whatever the order
\* of the file: no value at the (0-based) indices below 6, and from index 6 on
\* the mean of the seven consumptions ending there.
C7_RollingMeanOfSortedSeries ==
  Rolled =>
    /\ IsSortedByDate(Daily)
    /\ SameRecords(Daily, Observations)
    /\ \A i \in 1..Len(Daily) :
         IF i - 1 < 6 THEN Daily[i].cell["rolling_avg"] = NaN
         ELSE /\ Daily[i].cell["rolling_avg"].t = "num"
              /\ Daily[i].cell["rolling_avg"].v * 7
                   = Daily[i].cell["rolling_avg"].d * SumCons(Daily, i - 6, i)

\* the documented scenario, listed out of date order: (12+11+9+14+20+18+13)/7
C7_Witness ==
  /\ Rolled
  /\ Len(Daily) = 8
  /\ ~IsSortedByDate(Observations)
  /\ [i \in 1..8 |-> Daily[i].cell["consumption"].v] = [i \in 1..8 |-> ExampleCons[i] * Scale]
  /\ Daily[8].cell["rolling_avg"].v * 7 = Daily[8].cell["rolling_avg"].d * 97 * Scale
  /\ Daily[6].cell["rolling_avg"] = NaN

Softened == heap[softened_daily_consumption].rows

Trend(i) == Softened[i].cell["soft_trend"]

DistinctDates(rows) ==
  \A i \in 1..Len(rows) : \A j \in 1..Len(rows) :
    i # j => rows[i].cell["date"] # rows[j].cell["date"]

\* C8: the EWMA is over the records in date order, starts at the first
\* consumption and satisfies 31 * ewma[i] = 2 * consumption[i] + 29 * ewma[i-1],
\* so the sorted series determines it; records of distinct dates have one date
\* order, the one the rolling mean was computed in.
C8_EwmaRecurrence ==
  pc = "done" =>
    /\ AlphaNum * 31 = 2 * AlphaDen
    /\ IsSortedByDate(Softened)
    /\ SameRecords(Softened, Observations)
    /\ DistinctDates(Observations) =>
         [i \in 1..Len(Softened) |-> Softened[i].label] = [i \in 1..Len(Daily) |-> Daily[i].label]
    /\ \A i \in 1..Len(Softened) :
         /\ Trend(i).t = "ewm"
         /\ IF i = 1
            THEN Trend(1).big = BigShift(BigOf(Softened[1].cell["consumption"].v), Trend(1).d)
            ELSE LET k == Trend(i).d + Trend(i - 1).d IN
                   BigShift(Trend(i).big, 1 + k - Trend(i).d)
                     = BigAdd(BigShift(BigOf(2 * Softened[i].cell["consumption"].v), k),
                              BigMulAdd(BigShift(Trend(i - 1).big, k - Trend(i - 1).d), 29, 0),
                              0)

C8_Witness ==
  /\ pc = "done"
  /\ Len(Softened) >= 7
  /\ ~IsSortedByDate(Observations)
  /\ Trend(7).d = 6
  /\ Trend(2).big # BigShift(BigOf(Softened[2].cell["consumption"].v), Trend(2).d)

\* C9: whatever has run since the load, beer_df is the collection the load
\* returned: the same rows in the same order, the same seven columns and values.
C9_BeerDfIsNeverMutated ==
  Loaded =>
    /\ heap[beer_df] = cache[1]
    /\ heap[beer_df].cols = Columns
    /\ heap[beer_df].index = ""

C9_Witness ==
  /\ pc = "done"
  /\ Len(Observations) >= 2
  /\ monthly_df_precip # 0 /\ weekdays_df # 0 /\ yearly_consumption_df # 0
  /\ daily_consumption_df # 0 /\ softened_daily_consumption # 0
  /\ heap[monthly_df_precip].index = "date"
  /\ ~IsSortedByDate(Observations)

\* C10: is_weekend is true exactly for the records whose flag in the file is a
\* number above 0.5: 0.5 itself, 0 and 0.0 give false, 1 and 1.0 give true.
C10_WeekendIsFlagAboveHalf ==
  Loaded =>
    \A k \in 1..Len(Observations) :
      LET raw == RawOf(Observations[k])[6] IN
        /\ Observations[k].cell["is_weekend"] = Bool(2 * FloatOf(raw) > Scale)
        /\ raw \in {c0p5, c0, c0p0} => Observations[k].cell["is_weekend"].v = 0
        /\ raw \in {c1, c1p0} => Observations[k].cell["is_weekend"].v = 1

C10_Witness ==
  /\ Loaded
  /\ \E k \in 1..Len(Observations) :
       RawOf(Observations[k])[6] = c0p5 /\ Observations[k].cell["is_weekend"] = Bool(FALSE)
  /\ \E k \in 1..Len(Observations) :
       RawOf(Observations[k])[6] = c1p0 /\ Observations[k].cell["is_weekend"] = Bool(TRUE)

====
